---- MODULE Spec2Model ----
(***************************************************************************)
(* Model of data_generators/trajectory_augmentation.py: one call of       *)
(* augment_trajectory(df, aug_factor) on a grid of detection intensities.  *)
(*                                                                         *)
(* Cell values are written in tenths (5 stands for 0.5), so the detection  *)
(* test "> 0.1" is "> Threshold" with Threshold = 1.  aug_factor is the    *)
(* rational aug_factor / FactorDen; with FactorDen = 2 every factor is a   *)
(* binary fraction and len(indices) * aug_factor is exact in floating      *)
(* point, so math.ceil is the exact ceiling.                               *)
(*                                                                         *)
(* Two further machines share the module: Generator_CSVS_CNN.datagen       *)
(* (data_generator_cnn.py, SpecGen) and the length bookkeeping of          *)
(* data_generators.py, get_filtered_lengths against clean_ends and         *)
(* filter_rows (SpecLen).  Each specification keeps the variables of the   *)
(* other machines at their idle values.                                    *)
(***************************************************************************)
EXTENDS Integers, Sequences, FiniteSets, TLC

\* ---------------------------------------------------------------- bounds
MaxCells == 4
MaxDetections == 2
MaxFactorNum == 3
FactorDen == 2
MaxFiles == 3
MaxBatch == 2
MaxTimesteps == 6
MaxFeatures == 3
MaxRowsFactor == 3

\* ------------------------------------------------------ program constants
\* trajectory_augmentation.py:63  "> 0.1", in tenths
Threshold == 1
\* trajectory_augmentation.py:40  len(directions)
NumDirections == 4

Values == {0, 1, 5, 9}

VARIABLES
    df,               \* the caller's DataFrame, mutated in place
    shape,            \* df.shape = <<rows, cols>>
    aug_factor,       \* numerator of the factor, over FactorDen
    indices,          \* result of get_indices_detections(df)
    indices_sampled,  \* the sampled and shuffled coordinates
    i,                \* position of the for loop in indices_sampled
    tries,            \* iterations done by get_destination's loop
    pc,               \* "start", "loop", "returned", "raised"
    error,            \* exception that ended the call, or "none"
    df_in,            \* the grid as it was passed in
    moves             \* <<old_dest, new_dest>> of every move_pixel call

\* Generator_CSVS_CNN.datagen
VARIABLES
    file_names,       \* self.file_names, a list of file ids
    batch_size,       \* self.batch_size
    batch_index,      \* the local batch_index
    x_batch,          \* slot s of the code is x_batch[s + 1]
    y_batch,          \* slot s of the code is y_batch[s + 1]
    file_pos,         \* position of the for loop in file_names
    gen_pc,           \* "idle", "run", "yielded", "failed"
    loaded,           \* files loaded since the previous yield, in order
    x_prev,           \* x_batch as it was at the previous yield
    skipped           \* a file was skipped since the previous yield

\* get_filtered_lengths, clean_ends, filter_rows and the shape assertion
VARIABLES
    unfiltered,       \* get_lengths(): <<timestep_num, feature_num>>
    sample,           \* the hyperparameter sample
    filtered_lengths, \* result of get_filtered_lengths
    df_rows,          \* row labels of df_x
    df_cols,          \* column labels of df_x
    len_pc            \* "idle", "start", "read", "cleaned", "filtered",
                      \* "ok", "AssertionError"

aug_vars == <<df, shape, aug_factor, indices, indices_sampled, i, tries, pc,
              error, df_in, moves>>

gen_vars == <<file_names, batch_size, batch_index, x_batch, y_batch,
              file_pos, gen_pc, loaded, x_prev, skipped>>

len_vars == <<unfiltered, sample, filtered_lengths, df_rows, df_cols, len_pc>>

vars == <<aug_vars, gen_vars, len_vars>>

\* no call of augment_trajectory is in progress
AugIdle ==
    /\ shape = <<0, 0>>
    /\ df = << >>
    /\ df_in = << >>
    /\ aug_factor = 0
    /\ indices = << >>
    /\ indices_sampled = << >>
    /\ i = 0
    /\ tries = 0
    /\ pc = "idle"
    /\ error = "none"
    /\ moves = << >>

\* no generator has been created
GenIdle ==
    /\ file_names = << >>
    /\ batch_size = 0
    /\ batch_index = 0
    /\ x_batch = << >>
    /\ y_batch = << >>
    /\ file_pos = 0
    /\ gen_pc = "idle"
    /\ loaded = << >>
    /\ x_prev = << >>
    /\ skipped = FALSE

\* no lengths have been computed
LenIdle ==
    /\ unfiltered = <<0, 0>>
    /\ sample = << >>
    /\ filtered_lengths = <<0, 0>>
    /\ df_rows = << >>
    /\ df_cols = << >>
    /\ len_pc = "idle"

\* ------------------------------------------------------------- helpers
Range(s) == {s[n] : n \in DOMAIN s}

Cells(rows, cols) == (0 .. rows - 1) \X (0 .. cols - 1)

Detections(g) == {c \in DOMAIN g : g[c] > Threshold}

\* directions = [(0, -1), (0, 1), (1, 0), (-1, 0)]
directions == << <<0, -1>>, <<0, 1>>, <<1, 0>>, <<-1, 0>> >>

\* get_indices_detections: row-major scan, appending cells with value > 0.1
RECURSIVE scan_from(_, _, _)
scan_from(g, shp, n) ==
    IF n >= shp[1] * shp[2] THEN << >>
    ELSE LET cell == <<n \div shp[2], n % shp[2]>>
         IN  IF g[cell] > Threshold
             THEN <<cell>> \o scan_from(g, shp, n + 1)
             ELSE scan_from(g, shp, n + 1)

get_indices_detections(g, shp) == scan_from(g, shp, 0)

\* math.ceil(len(indices) * aug_factor)
SampleSize_floor(n, f) == (n * f) \div FactorDen
SampleSize_plus1(n, f) == ((n * f) \div FactorDen) + 1
SampleSize_clamp(n, f) ==
    LET k == -((-(n * f)) \div FactorDen) IN IF k > n THEN n ELSE k
SampleSize(n, f) == -((-(n * f)) \div FactorDen)

\* random.sample(population, k) raises ValueError unless 0 <= k <= len
sample_raises(population, k) == k < 0 \/ k > Len(population)

\* random.sample(population, k): k distinct positions, in selection order
random_sample(population, k) ==
    {[n \in 1 .. k |-> population[p[n]]] :
        p \in {q \in [1 .. k -> DOMAIN population] :
                 \A a, b \in 1 .. k : a # b => q[a] # q[b]}}

\* random.shuffle(x): any permutation of x
shuffle(x) ==
    {[n \in DOMAIN x |-> x[p[n]]] :
        p \in {q \in [DOMAIN x -> DOMAIN x] :
                 \A a, b \in DOMAIN x : a # b => q[a] # q[b]}}

\* the bounds test of get_destination, lines 48-50 (True means "continue")
out_of_bounds(new_pos, shp) ==
    \/ new_pos[1] < 0
    \/ new_pos[1] > shp[1]
    \/ new_pos[2] < 0
    \/ new_pos[2] > shp[2]

\* lines 44-46: the neighbour of old_position in the drawn direction
neighbour(old_position, direction) ==
    <<old_position[1] + direction[1], old_position[2] + direction[2]>>

\* line 52: new_pos in indices
occupied_never(new_pos, idx) == FALSE
occupied_live(new_pos, idx) ==
    new_pos \in DOMAIN df /\ df[new_pos] > Threshold
occupied(new_pos, idx) == new_pos \in Range(idx)

\* lines 48-53: the drawn position is returned as the destination
accepted(new_pos, shp, idx) ==
    ~out_of_bounds(new_pos, shp) /\ ~occupied(new_pos, idx)

\* df.iloc[new_dest] = ... raises IndexError for a position past the end
iloc_raises(g, new_dest) == new_dest \notin DOMAIN g

\* move_pixel: save the value, zero the source, write the destination;
\* when the write raises, the source has already been zeroed
move_pixel(g, old_dest, new_dest) ==
    IF iloc_raises(g, new_dest)
    THEN [g EXCEPT ![old_dest] = 0]
    ELSE [g EXCEPT ![old_dest] = 0, ![new_dest] = g[old_dest]]

\* ------------------------------------------------------------- machine
Shapes ==
    {shp \in (0 .. MaxCells) \X (0 .. MaxCells) : shp[1] * shp[2] <= MaxCells}

Grids(shp) ==
    {g \in [Cells(shp[1], shp[2]) -> Values] :
        Cardinality(Detections(g)) <= MaxDetections}

Init ==
    /\ shape \in Shapes
    /\ df \in Grids(shape)
    /\ df_in = df
    /\ aug_factor \in (-MaxFactorNum) .. MaxFactorNum
    /\ indices = << >>
    /\ indices_sampled = << >>
    /\ i = 0
    /\ tries = 0
    /\ pc = "start"
    /\ error = "none"
    /\ moves = << >>
    /\ GenIdle
    /\ LenIdle

\* lines 28-30, random.sample raising ValueError
SampleRaise ==
    /\ pc = "start"
    /\ LET idx == get_indices_detections(df, shape)
       IN  /\ sample_raises(idx, SampleSize(Len(idx), aug_factor))
           /\ indices' = idx
    /\ pc' = "raised"
    /\ error' = "ValueError"
    /\ UNCHANGED <<df, shape, aug_factor, indices_sampled, i, tries, df_in,
                   moves>>
    /\ UNCHANGED <<gen_vars, len_vars>>

\* lines 28-30, detection scan, sampling and shuffling
Sample ==
    /\ pc = "start"
    /\ LET idx == get_indices_detections(df, shape)
           k == SampleSize(Len(idx), aug_factor)
       IN  /\ ~sample_raises(idx, k)
           /\ indices' = idx
           /\ \E s \in random_sample(idx, k) :
                 \E t \in shuffle(s) : indices_sampled' = t
    /\ i' = 1
    /\ pc' = "loop"
    /\ UNCHANGED <<df, shape, aug_factor, tries, error, df_in, moves>>
    /\ UNCHANGED <<gen_vars, len_vars>>

\* lines 41-52, an iteration of get_destination's loop that draws a
\* direction whose neighbour is out of bounds or in indices
DrawReject ==
    /\ pc = "loop"
    /\ i <= Len(indices_sampled)
    /\ tries < NumDirections
    /\ \E n \in DOMAIN directions :
          ~accepted(neighbour(indices_sampled[i], directions[n]), shape,
                    indices)
    /\ tries' = tries + 1
    /\ UNCHANGED <<df, shape, aug_factor, indices, indices_sampled, i, pc,
                   error, df_in, moves>>
    /\ UNCHANGED <<gen_vars, len_vars>>

\* lines 41-53 and 34, an iteration of get_destination's loop that returns
\* new_pos, followed by a move_pixel that completes
DrawMove ==
    /\ pc = "loop"
    /\ i <= Len(indices_sampled)
    /\ tries < NumDirections
    /\ \E n \in DOMAIN directions :
          LET index_tuple == indices_sampled[i]
              new_dest == neighbour(index_tuple, directions[n])
          IN  /\ accepted(new_dest, shape, indices)
              /\ ~iloc_raises(df, new_dest)
              /\ df' = move_pixel(df, index_tuple, new_dest)
              /\ moves' = Append(moves, <<index_tuple, new_dest>>)
    /\ i' = i + 1
    /\ tries' = 0
    /\ UNCHANGED <<shape, aug_factor, indices, indices_sampled, pc, error,
                   df_in>>
    /\ UNCHANGED <<gen_vars, len_vars>>

\* lines 41-53 and 34, an iteration of get_destination's loop that returns
\* new_pos, followed by a move_pixel that raises IndexError at line 73
DrawMoveRaise ==
    /\ pc = "loop"
    /\ i <= Len(indices_sampled)
    /\ tries < NumDirections
    /\ \E n \in DOMAIN directions :
          LET index_tuple == indices_sampled[i]
              new_dest == neighbour(index_tuple, directions[n])
          IN  /\ accepted(new_dest, shape, indices)
              /\ iloc_raises(df, new_dest)
              /\ df' = move_pixel(df, index_tuple, new_dest)
              /\ moves' = Append(moves, <<index_tuple, new_dest>>)
    /\ pc' = "raised"
    /\ error' = "IndexError"
    /\ UNCHANGED <<shape, aug_factor, indices, indices_sampled, i, tries,
                   df_in>>
    /\ UNCHANGED <<gen_vars, len_vars>>

\* lines 56 and 34, get_destination returns old_position after
\* len(directions) rejected draws and move_pixel writes the value back
StayPut ==
    /\ pc = "loop"
    /\ i <= Len(indices_sampled)
    /\ tries = NumDirections
    /\ LET index_tuple == indices_sampled[i]
       IN  /\ df' = move_pixel(df, index_tuple, index_tuple)
           /\ moves' = Append(moves, <<index_tuple, index_tuple>>)
    /\ i' = i + 1
    /\ tries' = 0
    /\ UNCHANGED <<shape, aug_factor, indices, indices_sampled, pc, error,
                   df_in>>
    /\ UNCHANGED <<gen_vars, len_vars>>

\* line 36, return df
Return ==
    /\ pc = "loop"
    /\ i > Len(indices_sampled)
    /\ pc' = "returned"
    /\ UNCHANGED <<df, shape, aug_factor, indices, indices_sampled, i, tries,
                   error, df_in, moves>>
    /\ UNCHANGED <<gen_vars, len_vars>>

Next ==
    \/ SampleRaise
    \/ Sample
    \/ DrawReject
    \/ DrawMove
    \/ DrawMoveRaise
    \/ StayPut
    \/ Return

Spec == Init /\ [][Next]_vars

\* ------------------------------------------------ datagen (SpecGen)
\* the exceptions of __getitem__ that datagen catches, lines 60 and 63
Caught == {"FileNotFoundError", "ValueError"}

\* exceptions of __getitem__ that datagen does not catch (the asserts of
\* data_generators.py lines 110-123)
Uncaught == {"AssertionError"}

\* arr_x and label returned by __getitem__ for a file: the features of file
\* f are written f and its label -f, both different from the 0 of np.zeros
arr_x(file_name) == file_name
label(file_name) == 0 - file_name

\* np.zeros(shape=(batch_size, ...)), lines 47-52
zeros(n) == [s \in 1 .. n |-> 0]

\* the for loop over self.file_names inside while True, lines 54-55
next_pos(pos, names) == IF pos = Len(names) THEN 1 ELSE pos + 1

\* line 71: batch_index == self.batch_size
batch_full(index, size) == index = size

GenInit ==
    /\ AugIdle
    /\ LenIdle
    /\ \E n \in 0 .. MaxFiles : file_names = [f \in 1 .. n |-> f]
    /\ batch_size \in 1 .. MaxBatch
    /\ batch_index = 0
    /\ x_batch = zeros(batch_size)
    /\ y_batch = zeros(batch_size)
    /\ file_pos = 1
    /\ gen_pc = "run"
    /\ loaded = << >>
    /\ x_prev = x_batch
    /\ skipped = FALSE

\* lines 55-73, __getitem__ returns: the sample is stored in slot
\* batch_index, and the batch is yielded when it is full
GetItemLoaded ==
    /\ gen_pc = "run"
    /\ file_pos \in DOMAIN file_names
    /\ LET file_name == file_names[file_pos]
       IN  /\ x_batch' = [x_batch EXCEPT ![batch_index + 1] = arr_x(file_name)]
           /\ y_batch' = [y_batch EXCEPT ![batch_index + 1] = label(file_name)]
           /\ loaded' = Append(loaded, file_name)
    /\ IF batch_full(batch_index + 1, batch_size)
       THEN batch_index' = 0 /\ gen_pc' = "yielded"
       ELSE batch_index' = batch_index + 1 /\ gen_pc' = gen_pc
    /\ file_pos' = next_pos(file_pos, file_names)
    /\ UNCHANGED <<file_names, batch_size, x_prev, skipped>>
    /\ UNCHANGED <<aug_vars, len_vars>>

\* lines 55-64, __getitem__ raises FileNotFoundError or ValueError: continue
GetItemSkipped_advancing ==
    /\ gen_pc = "run"
    /\ file_pos \in DOMAIN file_names
    /\ \E e \in Caught : skipped' = TRUE
    /\ batch_index' = batch_index + 1
    /\ file_pos' = next_pos(file_pos, file_names)
    /\ UNCHANGED <<file_names, batch_size, x_batch, y_batch, gen_pc, loaded,
                   x_prev>>
    /\ UNCHANGED <<aug_vars, len_vars>>
GetItemSkipped ==
    /\ gen_pc = "run"
    /\ file_pos \in DOMAIN file_names
    /\ \E e \in Caught : skipped' = TRUE
    /\ file_pos' = next_pos(file_pos, file_names)
    /\ UNCHANGED <<file_names, batch_size, batch_index, x_batch, y_batch,
                   gen_pc, loaded, x_prev>>
    /\ UNCHANGED <<aug_vars, len_vars>>

\* line 57, __getitem__ raises an exception datagen does not catch: it
\* propagates out of the generator
GetItemRaises ==
    /\ gen_pc = "run"
    /\ file_pos \in DOMAIN file_names
    /\ \E e \in Uncaught : gen_pc' = "failed"
    /\ UNCHANGED <<file_names, batch_size, batch_index, x_batch, y_batch,
                   file_pos, loaded, x_prev, skipped>>
    /\ UNCHANGED <<aug_vars, len_vars>>

\* the consumer asks for the next batch: execution resumes after line 73
Resume ==
    /\ gen_pc = "yielded"
    /\ gen_pc' = "run"
    /\ loaded' = << >>
    /\ x_prev' = x_batch
    /\ skipped' = FALSE
    /\ UNCHANGED <<file_names, batch_size, batch_index, x_batch, y_batch,
                   file_pos>>
    /\ UNCHANGED <<aug_vars, len_vars>>

GenNext ==
    \/ GetItemLoaded
    \/ GetItemSkipped
    \/ GetItemRaises
    \/ Resume

SpecGen == GenInit /\ [][GenNext]_vars

\* ------------------------------------- filtered lengths (SpecLen)
\* the labels of a table read by pd.read_csv(header=None): 0 .. n - 1
range_index(n) == [k \in 1 .. n |-> k - 1]

\* df.drop(labels): the labels that are left, in order
drop(labels, dropped) ==
    LET keep(l) == l \notin dropped IN SelectSeq(labels, keep)

\* clean_ends, columns (lines 282-287): drop the leading columns by
\* position, then the trailing columns of what is left
clean_ends_cols(cols, del_leading, del_trailing) ==
    LET leading == {cols[n + 1] : n \in 0 .. del_leading - 1}
        cut == drop(cols, leading)
        col_length == Len(cut)
        trailing == {cut[(col_length - n - 1) + 1] : n \in 0 .. del_trailing - 1}
    IN  drop(cut, trailing)

\* clean_ends, rows (lines 289-291): drop the row labels row_length - n - 1
clean_ends_rows(rows, del_rows) ==
    LET row_length == Len(rows)
    IN  drop(rows, {row_length - n - 1 : n \in 0 .. del_rows - 1})

\* filter_rows: df.iloc[::filter_rows_factor, :]
filter_rows(rows, filter_rows_factor) ==
    [k \in 1 .. ((Len(rows) + filter_rows_factor - 1) \div filter_rows_factor)
        |-> rows[(k - 1) * filter_rows_factor + 1]]

\* get_filtered_lengths, lines 338-346
get_filtered_lengths(timestep_num, feature_num, smp) ==
    LET filtered_length_t ==
            IF timestep_num % smp.filter_rows_factor # 0
            THEN (timestep_num \div smp.filter_rows_factor) + 1
            ELSE (timestep_num \div smp.filter_rows_factor)
                     - smp.filter_rows_lower
        filtered_length_y ==
            feature_num - smp.filter_cols_upper - smp.filter_cols_lower
    IN  <<filtered_length_t, filtered_length_y>>

\* the hyperparameter samples whose filters leave at least one row and one
\* column of the table
Samples(timestep_num, feature_num) ==
    {smp \in [filter_rows_factor : 1 .. MaxRowsFactor,
              filter_rows_lower : 0 .. timestep_num - 1,
              filter_cols_upper : 0 .. feature_num - 1,
              filter_cols_lower : 0 .. feature_num - 1] :
        smp.filter_cols_upper + smp.filter_cols_lower < feature_num}

LenInit ==
    /\ AugIdle
    /\ GenIdle
    /\ unfiltered \in (1 .. MaxTimesteps) \X (1 .. MaxFeatures)
    /\ sample \in Samples(unfiltered[1], unfiltered[2])
    /\ filtered_lengths = <<0, 0>>
    /\ df_rows = << >>
    /\ df_cols = << >>
    /\ len_pc = "start"

\* create_datagen line 95: length_t, length_y = get_filtered_lengths(...)
GetFilteredLengths ==
    /\ len_pc = "start"
    /\ filtered_lengths' =
          get_filtered_lengths(unfiltered[1], unfiltered[2], sample)
    /\ len_pc' = "lengths"
    /\ UNCHANGED <<unfiltered, sample, df_rows, df_cols>>
    /\ UNCHANGED <<aug_vars, gen_vars>>

\* __getitem__ lines 86-93: a file with the unfiltered dimensions is read
GetFeatures ==
    /\ len_pc = "lengths"
    /\ df_rows' = range_index(unfiltered[1])
    /\ df_cols' = range_index(unfiltered[2])
    /\ len_pc' = "read"
    /\ UNCHANGED <<unfiltered, sample, filtered_lengths>>
    /\ UNCHANGED <<aug_vars, gen_vars>>

\* __getitem__ lines 99-101: clean_ends
CleanEnds ==
    /\ len_pc = "read"
    /\ df_cols' = clean_ends_cols(df_cols, sample.filter_cols_upper,
                                  sample.filter_cols_lower)
    /\ df_rows' = clean_ends_rows(df_rows, sample.filter_rows_lower)
    /\ len_pc' = "cleaned"
    /\ UNCHANGED <<unfiltered, sample, filtered_lengths>>
    /\ UNCHANGED <<aug_vars, gen_vars>>

\* __getitem__ line 102: filter_rows
FilterRows ==
    /\ len_pc = "cleaned"
    /\ df_rows' = filter_rows(df_rows, sample.filter_rows_factor)
    /\ len_pc' = "filtered"
    /\ UNCHANGED <<unfiltered, sample, filtered_lengths, df_cols>>
    /\ UNCHANGED <<aug_vars, gen_vars>>

\* __getitem__ lines 121-123: the shape assertion holds
AssertShapeHolds ==
    /\ len_pc = "filtered"
    /\ Len(df_rows) = filtered_lengths[1]
    /\ Len(df_cols) = filtered_lengths[2]
    /\ len_pc' = "ok"
    /\ UNCHANGED <<unfiltered, sample, filtered_lengths, df_rows, df_cols>>
    /\ UNCHANGED <<aug_vars, gen_vars>>

\* __getitem__ lines 121-123: the shape assertion fails
AssertShapeFails ==
    /\ len_pc = "filtered"
    /\ ~(Len(df_rows) = filtered_lengths[1]
         /\ Len(df_cols) = filtered_lengths[2])
    /\ len_pc' = "AssertionError"
    /\ UNCHANGED <<unfiltered, sample, filtered_lengths, df_rows, df_cols>>
    /\ UNCHANGED <<aug_vars, gen_vars>>

LenNext ==
    \/ GetFilteredLengths
    \/ GetFeatures
    \/ CleanEnds
    \/ FilterRows
    \/ AssertShapeHolds
    \/ AssertShapeFails

SpecLen == LenInit /\ [][LenNext]_vars

\* ------------------------------------------------- vocabulary of the claims
DetCount(g) == Cardinality(Detections(g))

RECURSIVE SumOver(_, _)
SumOver(g, S) ==
    IF S = {} THEN 0
    ELSE LET c == CHOOSE x \in S : TRUE IN g[c] + SumOver(g, S \ {c})

GridSum(g) == SumOver(g, DOMAIN g)

Abs(x) == IF x < 0 THEN -x ELSE x

\* the ceiling of n * f / FactorDen, by its defining inequalities
K(n, f) ==
    CHOOSE k \in (-(n * Abs(f))) .. (n * Abs(f)) :
        /\ k * FactorDen >= n * f
        /\ (k - 1) * FactorDen < n * f

KIn == K(DetCount(df_in), aug_factor)

FactorInUnit == aug_factor >= 0 /\ aug_factor <= FactorDen

Relocations == {m \in DOMAIN moves : moves[m][1] # moves[m][2]}

\* ------------------------------------------------------------------ C1
\* C1: for a factor in [0, 1], the grid returned by augment_trajectory has
\* as many cells with value > 0.1 as the input grid.
CexC1 ==
    (pc = "returned" /\ FactorInUnit) => DetCount(df) = DetCount(df_in)

\* ------------------------------------------------------------------ C2
\* C2: for a factor in [0, 1], the sum of all cells of the returned grid
\* equals the sum of all cells of the input grid.
CexC2 ==
    (pc = "returned" /\ FactorInUnit) => GridSum(df) = GridSum(df_in)

\* ------------------------------------------------------------------ C3
\* C3: within one call, the moves that relocate a value (destination #
\* source) have pairwise distinct destinations.
CexC3 ==
    \A a, b \in Relocations : a # b => moves[a][2] # moves[b][2]

\* ------------------------------------------------------------------ C4
\* C4: every destination handed to move_pixel has its row in 0..rows-1 and
\* its column in 0..cols-1, and no IndexError occurs.
CexC4 ==
    /\ \A m \in DOMAIN moves : moves[m][2] \in Cells(shape[1], shape[2])
    /\ error # "IndexError"

\* ------------------------------------------------------------------ C5
\* C5: a call that ends with an error has left every cell of the caller's
\* grid as it was passed in.
CexC5 ==
    pc = "raised" => df = df_in

\* ------------------------------------------------------------------ C6
\* C6 as stated: a grid with zero rows or zero columns, or a negative
\* factor, never lets the call return normally.
CexC6 ==
    pc = "returned" =>
        ~(shape[1] = 0 \/ shape[2] = 0 \/ aug_factor < 0)

\* C6 as amended: the call raises ValueError with the grid untouched when
\* ceil(|D| * factor) < 0; with a zero dimension, or a negative factor for
\* which ceil(|D| * factor) = 0, it raises nothing and the grid stays equal
\* to the input.
ThmC6 ==
    pc # "start" =>
        /\ KIn < 0 =>
              pc = "raised" /\ error = "ValueError" /\ df = df_in
        /\ (shape[1] = 0 \/ shape[2] = 0 \/ (aug_factor < 0 /\ KIn = 0)) =>
              pc # "raised" /\ error = "none" /\ df = df_in

WitC6 ==
    /\ pc = "raised"
    /\ error = "ValueError"
    /\ aug_factor < 0
    /\ DetCount(df_in) > 0
    /\ df = df_in

\* ------------------------------------------------------------------ C7
\* C7 as stated: with a factor greater than 1 the call does not fail on
\* the sample size, and every detection is selected.
CexC7 ==
    (pc # "start" /\ aug_factor > FactorDen) =>
        /\ error # "ValueError"
        /\ Len(indices_sampled) = DetCount(df_in)

\* C7 as amended: with a factor greater than 1 and at least one detection
\* the call raises ValueError before any cell is changed; with no detection
\* it raises nothing and the grid stays equal to the input.
ThmC7 ==
    (pc # "start" /\ aug_factor > FactorDen) =>
        IF DetCount(df_in) > 0
        THEN pc = "raised" /\ error = "ValueError" /\ df = df_in
        ELSE pc # "raised" /\ error = "none" /\ df = df_in

WitC7 ==
    /\ pc = "raised"
    /\ error = "ValueError"
    /\ aug_factor > FactorDen
    /\ DetCount(df_in) > 0
    /\ indices_sampled = << >>

\* ------------------------------------------------------------------ C8
\* C8: when the factor is >= 0 and ceil(|D| * factor) = 0, the call raises
\* nothing and the grid is cell for cell the input grid.
ThmC8 ==
    (pc # "start" /\ aug_factor >= 0 /\ KIn = 0) =>
        /\ pc # "raised"
        /\ error = "none"
        /\ df = df_in
        /\ moves = << >>

WitC8 ==
    /\ pc = "returned"
    /\ aug_factor = 0
    /\ DetCount(df_in) > 0
    /\ df = df_in

\* ------------------------------------------------------------------ C9
\* C9: for a factor in [0, 1] the call processes exactly ceil(|D| * factor)
\* pairwise distinct coordinates of D, and on return every detection of D
\* outside the sample holds its original value at its original cell.
ThmC9 ==
    (pc # "start" /\ FactorInUnit) =>
        /\ Len(indices_sampled) = KIn
        /\ \A a, b \in DOMAIN indices_sampled :
              a # b => indices_sampled[a] # indices_sampled[b]
        /\ Range(indices_sampled) \subseteq Detections(df_in)
        /\ \A m \in DOMAIN moves : moves[m][1] = indices_sampled[m]
        /\ pc = "returned" =>
              /\ Len(moves) = KIn
              /\ \A c \in Detections(df_in) \ Range(indices_sampled) :
                    df[c] = df_in[c]

WitC9 ==
    /\ pc = "returned"
    /\ aug_factor > 0
    /\ aug_factor < FactorDen
    /\ Detections(df_in) \ Range(indices_sampled) # {}
    /\ Relocations # {}

\* ------------------------------------------------------------------ C11
\* a neighbour of c that is inside the grid and not a detection of D
ValidNeighbours(c) ==
    {p \in Cells(shape[1], shape[2]) \ Detections(df_in) :
        Abs(p[1] - c[1]) + Abs(p[2] - c[2]) = 1}

\* C11: a sampled detection stays put exactly when it has no valid
\* neighbour, and otherwise its destination is one of its valid neighbours.
CexC11 ==
    \A m \in DOMAIN moves :
        IF ValidNeighbours(moves[m][1]) = {}
        THEN moves[m][2] = moves[m][1]
        ELSE moves[m][2] \in ValidNeighbours(moves[m][1])

\* ------------------------------------------------------------------ C12
\* C12: no relocation has a destination in the detection set D of the
\* start of the call; a cell of D vacated by an earlier move is never the
\* destination of a later move.
ThmC12 ==
    \A m \in Relocations :
        /\ moves[m][2] \notin Detections(df_in)
        /\ moves[m][2] \notin Range(indices)
        /\ \A a \in Relocations : a < m => moves[m][2] # moves[a][1]

WitC12 ==
    \E a, b \in Relocations :
        /\ a < b
        /\ Abs(moves[a][1][1] - moves[b][1][1])
             + Abs(moves[a][1][2] - moves[b][1][2]) = 1
        /\ moves[a][1] \in DOMAIN df
        /\ df[moves[a][1]] = 0
        /\ moves[b][2] \in DOMAIN df

\* ------------------------------------------------------------------ C13
\* C13: datagen yields only when exactly batch_size samples were loaded
\* since the previous yield; a skipped file neither advances batch_index
\* nor writes to the batch; batch_index stays in 0..batch_size-1 and is 0 at
\* each yield; the samples fill the slots in the order the files were
\* visited.
ThmC13 ==
    gen_pc # "idle" =>
        /\ batch_index \in 0 .. batch_size - 1
        /\ gen_pc = "yielded" => batch_index = 0 /\ Len(loaded) = batch_size
        /\ gen_pc # "yielded" => batch_index = Len(loaded)
        /\ Len(loaded) <= batch_size
        /\ \A s \in 1 .. Len(loaded) :
              /\ x_batch[s] = arr_x(loaded[s])
              /\ y_batch[s] = label(loaded[s])
        /\ \A s \in Len(loaded) + 1 .. batch_size : x_batch[s] = x_prev[s]

WitC13 ==
    /\ gen_pc = "yielded"
    /\ skipped
    /\ batch_size = 2
    /\ Len(loaded) = 2
    /\ loaded[1] > loaded[2]
    /\ x_prev # zeros(batch_size)

\* ------------------------------------------------------------------ C14
\* C14: the lengths returned by get_filtered_lengths are the row and column
\* counts of the table left by clean_ends and filter_rows, so the shape
\* assertion of __getitem__ never fails.
CexC14 ==
    /\ len_pc \in {"filtered", "ok", "AssertionError"} =>
          filtered_lengths = <<Len(df_rows), Len(df_cols)>>
    /\ len_pc # "AssertionError"

====
